---- MODULE Spec2Model ----
(***************************************************************************)
(* Model of the multi-touch gesture decoder of src/lib/gesture.ts          *)
(* (class GestureDecoder).                                                 *)
(*                                                                         *)
(* Conventions.                                                            *)
(*  - The cache is a TLA+ sequence, so the source's cache[0] and cache[1]  *)
(*    are cache[1] and cache[2] here.                                      *)
(*  - Math.sqrt(n) is represented by its radicand n (sqrt is injective on  *)
(*    the non-negative numbers): the field delta and the operator Dist     *)
(*    hold squared distances, and a scale is the reduced fraction          *)
(*    num/den of the squared distances, i.e. the square of the source's    *)
(*    quotient.  den = 0 is the source's non-finite result: 1/0 stands     *)
(*    for Infinity and 0/0 for NaN.                                        *)
(*  - A zoom centre (a + b) / 2 is held in half units, as a + b.           *)
(*  - Arithmetic is exact; the rounding of IEEE doubles is not modelled.   *)
(*  - Every cache entry carries a history field "arrival", the rank of     *)
(*    its contact's arrival among the entries now in the cache.  The code  *)
(*    has no such field; it moves with the entry exactly as the code       *)
(*    moves the entry.                                                     *)
(***************************************************************************)
EXTENDS Integers, Sequences, FiniteSets, TLC

\* Bounds of the model.
MaxId == 3
MaxCoord == 1
MaxCache == 4
MaxRegistered == 2
MaxRaising == 1

Ids == 1..MaxId
Coord == 0..MaxCoord

Kinds == {"dragstart", "dragupdate", "dragstop", "zoomstart", "zoomupdate", "zoomstop"}
None == "none"
Handlers == {"h1", "h2"}
\* A handler whose call raises an error.
Raiser == "raiser"

\* The positions a contact can take: the grid points within MaxCoord of the origin.
Points == {p \in Coord \X Coord : p[1] + p[2] <= MaxCoord}

\* A raw pointer event: identity and position.
PointerEvents ==
    {[pointerId |-> id, clientX |-> p[1], clientY |-> p[2]] : id \in Ids, p \in Points}

VARIABLES
    cache,       \* this.cache
    x,           \* this.x   (drag anchor)
    y,           \* this.y   (drag anchor)
    delta,       \* this.delta (zoom anchor, as a squared distance)
    handlers,    \* the six optional handler fields
    out,         \* history: the handler invocations of the latest notification, in order
    ops,         \* history: the gesture operations the latest notification ran, in order
    last,        \* history: the latest notification: its type, and whether its
                 \*   pointerId was in the cache when it arrived
    thrown,      \* history: the latest notification ended in an error
    dragActive,  \* history: a drag start ran with no later drag stop
    zoomActive,  \* history: a zoom start ran with no later zoom stop
    orderly      \* history: no start found its gesture active, no stop found it idle

vars == <<cache, x, y, delta, handlers, out, ops, last, thrown,
          dragActive, zoomActive, orderly>>

\* The history of gesture starts and stops is kept by the specifications that
\* state claims about it (Tracked below) and left alone by the others.
track == <<dragActive, zoomActive, orderly>>

----------------------------------------------------------------------------
\* Arithmetic helpers.

RECURSIVE Gcd(_, _)
Gcd(a, b) == IF b = 0 THEN a ELSE Gcd(b, a % b)

\* Squared Euclidean distance of two cache entries (the radicand of Math.sqrt).
Dist(p, q) ==
    LET deltaX == p.clientX - q.clientX
        deltaY == p.clientY - q.clientY
    IN  deltaX * deltaX + deltaY * deltaY

\* A scale that reports 1 instead of dividing by a zero anchor.
ScaleGuarded(d, anchor) ==
    LET g == Gcd(d, anchor)
    IN  IF anchor = 0 THEN [num |-> 1, den |-> 1]
        ELSE [num |-> d \div g, den |-> anchor \div g]

\* delta / this.delta on radicands, as a reduced fraction.
Scale(d, anchor) ==
    LET g == Gcd(d, anchor)
    IN  IF g = 0 THEN [num |-> 0, den |-> 0]
        ELSE [num |-> d \div g, den |-> anchor \div g]

One == [num |-> 1, den |-> 1]

\* (a + b) / 2, in half units.
Mid(a, b) == a + b

----------------------------------------------------------------------------
\* Cache helpers.

\* The index the for-loops of handlePointerMove / handlePointerUp stop at:
\* the first entry with the pointerId, 0 when there is none.
IndexOf(c, id) ==
    IF \E i \in 1..Len(c) : c[i].pointerId = id
    THEN CHOOSE i \in 1..Len(c) :
            /\ c[i].pointerId = id
            /\ \A j \in 1..(i - 1) : c[j].pointerId # id
    ELSE 0

\* this.cache.push(event)
Push(c, e) ==
    Append(c, [pointerId |-> e.pointerId, clientX |-> e.clientX,
               clientY |-> e.clientY, arrival |-> Len(c) + 1])

\* this.cache[i] = event
Overwrite(c, i, e) ==
    [c EXCEPT ![i] = [pointerId |-> e.pointerId, clientX |-> e.clientX,
                      clientY |-> e.clientY, arrival |-> c[i].arrival]]

\* A removal that fills the hole with the last entry instead of shifting.
SpliceSwap(c, i) ==
    [j \in 1..(Len(c) - 1) |-> IF j = i THEN c[Len(c)] ELSE c[j]]

\* this.cache.splice(i, 1)
Splice(c, i) == [j \in 1..(Len(c) - 1) |-> IF j < i THEN c[j] ELSE c[j + 1]]

\* Arrival ranks renumbered among the entries that are left (order kept).
Rerank(c) ==
    [j \in 1..Len(c) |->
        [c[j] EXCEPT !.arrival =
            Cardinality({k \in 1..Len(c) : c[k].arrival <= c[j].arrival})]]

----------------------------------------------------------------------------
\* The gesture operations.  Each takes and returns the decoder's fields as a
\* record s (cache, x, y, delta and the history fields), so that a handler can
\* run several of them in sequence.  hs is the handler table.

\* The handler call "if (h != null) h(payload)" of every operation.
\* An error the handler raises is not caught: it ends the notification.
Dispatch(s, hs, kind, payload) ==
    [s EXCEPT !.out = Append(@, [kind |-> kind, handler |-> hs[kind], event |-> payload]),
              !.thrown = (hs[kind] = Raiser)]

\* An operation that would run after an error of the same notification does not run.
\* A read of this.cache[n - 1] needs n entries; otherwise it raises a TypeError.
Called(s, name) == [s EXCEPT !.ops = Append(@, name)]
Raise(s) == [s EXCEPT !.thrown = TRUE]

\* A drag payload measured against the anchor's other coordinate.
DragPayloadSwapped(s) ==
    [x |-> s.cache[1].clientX - s.y, y |-> s.cache[1].clientY - s.x]

DragPayload(s) ==
    [x |-> s.cache[1].clientX - s.x, y |-> s.cache[1].clientY - s.y]

ZoomPayload(s, scale) ==
    [x |-> Mid(s.cache[1].clientX, s.cache[2].clientX),
     y |-> Mid(s.cache[1].clientY, s.cache[2].clientY),
     scale |-> scale]

\* startDrag recording the anchor only when it has a handler to call.
startDragIfHandled(s0, hs) ==
    IF s0.thrown THEN s0 ELSE
    LET s == Called(s0, "startDrag") IN
    IF hs["dragstart"] = None THEN s ELSE
    IF Len(s.cache) < 1 THEN Raise(s) ELSE
    LET s1 == [s EXCEPT !.x = s.cache[1].clientX,
                        !.y = s.cache[1].clientY]
    IN  Dispatch(s1, hs, "dragstart", DragPayload(s1))

startDrag(s0, hs) ==
    IF s0.thrown THEN s0 ELSE
    LET s == Called(s0, "startDrag") IN
    IF Len(s.cache) < 1 THEN Raise(s) ELSE
    LET s1 == [s EXCEPT !.x = s.cache[1].clientX,
                        !.y = s.cache[1].clientY]
    IN  IF hs["dragstart"] # None
        THEN Dispatch(s1, hs, "dragstart", DragPayload(s1))
        ELSE s1

\* updateDrag moving the Drag Anchor to the position it reports.
updateDragReanchor(s0, hs) ==
    IF s0.thrown THEN s0 ELSE
    LET s == Called(s0, "updateDrag") IN
    IF hs["dragupdate"] # None
    THEN IF Len(s.cache) < 1 THEN Raise(s)
         ELSE [Dispatch(s, hs, "dragupdate", DragPayload(s))
                  EXCEPT !.x = s.cache[1].clientX, !.y = s.cache[1].clientY]
    ELSE s

updateDrag(s0, hs) ==
    IF s0.thrown THEN s0 ELSE
    LET s == Called(s0, "updateDrag") IN
    IF hs["dragupdate"] # None
    THEN IF Len(s.cache) < 1 THEN Raise(s)
         ELSE Dispatch(s, hs, "dragupdate", DragPayload(s))
    ELSE s

stopDrag(s0, hs) ==
    IF s0.thrown THEN s0 ELSE
    LET s == Called(s0, "stopDrag") IN
    IF hs["dragstop"] # None
    THEN IF Len(s.cache) < 1 THEN Raise(s)
         ELSE Dispatch(s, hs, "dragstop", DragPayload(s))
    ELSE s

startZoom(s0, hs) ==
    IF s0.thrown THEN s0 ELSE
    LET s == Called(s0, "startZoom") IN
    IF Len(s.cache) < 2 THEN Raise(s) ELSE
    LET s1 == [s EXCEPT !.delta = Dist(s.cache[1], s.cache[2])]
    IN  IF hs["zoomstart"] # None
        THEN Dispatch(s1, hs, "zoomstart", ZoomPayload(s1, One))
        ELSE s1

updateZoom(s0, hs) ==
    IF s0.thrown THEN s0 ELSE
    LET s == Called(s0, "updateZoom") IN
    IF hs["zoomupdate"] # None
    THEN IF Len(s.cache) < 2 THEN Raise(s)
         ELSE Dispatch(s, hs, "zoomupdate",
                       ZoomPayload(s, Scale(Dist(s.cache[1], s.cache[2]), s.delta)))
    ELSE s

stopZoom(s0, hs) ==
    IF s0.thrown THEN s0 ELSE
    LET s == Called(s0, "stopZoom") IN
    IF hs["zoomstop"] # None
    THEN IF Len(s.cache) < 2 THEN Raise(s)
         ELSE Dispatch(s, hs, "zoomstop",
                       ZoomPayload(s, Scale(Dist(s.cache[1], s.cache[2]), s.delta)))
    ELSE s

----------------------------------------------------------------------------
\* The decoder's fields at the start of a notification, and their write-back.

Fields ==
    [cache |-> cache, x |-> x, y |-> y, delta |-> delta,
     out |-> <<>>, ops |-> <<>>, thrown |-> FALSE]

Commit(s, notification) ==
    /\ cache' = Rerank(s.cache)
    /\ x' = s.x
    /\ y' = s.y
    /\ delta' = s.delta
    /\ out' = s.out
    /\ ops' = s.ops
    /\ thrown' = s.thrown
    /\ last' = notification
    /\ UNCHANGED handlers

----------------------------------------------------------------------------
\* The state after construction.

NoNotification == [type |-> "none", matched |-> FALSE]

Notification(type, id) == [type |-> type, matched |-> IndexOf(cache, id) # 0]

Init ==
    /\ cache = <<>>
    /\ x = 0
    /\ y = 0
    /\ delta = 0
    /\ handlers = [k \in Kinds |-> None]
    /\ out = <<>>
    /\ ops = <<>>
    /\ last = NoNotification
    /\ thrown = FALSE
    /\ dragActive = FALSE
    /\ zoomActive = FALSE
    /\ orderly = TRUE

\* on with the dragupdate case writing the dragstart field.
onWrongField(type, handler) ==
    /\ handlers' = [handlers EXCEPT ![IF type = "dragupdate" THEN "dragstart" ELSE type]
                                        = handler]
    /\ UNCHANGED <<cache, x, y, delta, out, ops, last, thrown>>

\* on(type, handler)
on(type, handler) ==
    /\ handlers' = [handlers EXCEPT ![type] = handler]
    /\ UNCHANGED <<cache, x, y, delta, out, ops, last, thrown>>

\* handlePointerDown without the drag stop at size 2.
handlePointerDownNoStop(event) ==
    /\ Len(cache) < MaxCache
    /\ LET s0 == [Fields EXCEPT !.cache = Push(cache, event)]
           s1 == CASE Len(s0.cache) = 1 -> startDrag(s0, handlers)
                   [] Len(s0.cache) = 2 -> startZoom(s0, handlers)
                   [] Len(s0.cache) = 3 -> stopZoom(s0, handlers)
                   [] OTHER -> s0
       IN  Commit(s1, Notification("down", event.pointerId))

\* handlePointerDown starting the zoom before it stops the drag.
handlePointerDownSwapped(event) ==
    /\ Len(cache) < MaxCache
    /\ LET s0 == [Fields EXCEPT !.cache = Push(cache, event)]
           s1 == CASE Len(s0.cache) = 1 -> startDrag(s0, handlers)
                   [] Len(s0.cache) = 2 -> stopDrag(startZoom(s0, handlers), handlers)
                   [] Len(s0.cache) = 3 -> stopZoom(s0, handlers)
                   [] OTHER -> s0
       IN  Commit(s1, Notification("down", event.pointerId))

\* The body of handlePointerDown on the fields s and the handler table hs.
pointerDown(s, hs, event) ==
    LET s0 == [s EXCEPT !.cache = Push(s.cache, event)]
    IN  CASE Len(s0.cache) = 1 -> startDrag(s0, hs)
          [] Len(s0.cache) = 2 -> startZoom(stopDrag(s0, hs), hs)
          [] Len(s0.cache) = 3 -> stopZoom(s0, hs)
          [] OTHER -> s0

\* handlePointerDown(event)
handlePointerDown(event) ==
    /\ Len(cache) < MaxCache
    /\ Commit(pointerDown(Fields, handlers, event), Notification("down", event.pointerId))

\* handlePointerMove updating the zoom at every size from 2 up.
handlePointerMoveNoFreeze(event) ==
    LET i == IndexOf(cache, event.pointerId)
        s0 == IF i # 0 THEN [Fields EXCEPT !.cache = Overwrite(cache, i, event)]
              ELSE Fields
        s1 == CASE Len(s0.cache) = 1 -> updateDrag(s0, handlers)
                [] Len(s0.cache) >= 2 -> updateZoom(s0, handlers)
                [] OTHER -> s0
    IN  Commit(s1, Notification("move", event.pointerId))

\* handlePointerMove updating a zoom from size 1 on.
pointerMoveZoomAtOne(s, hs, event) ==
    LET i == IndexOf(s.cache, event.pointerId)
        s0 == IF i # 0 THEN [s EXCEPT !.cache = Overwrite(s.cache, i, event)]
              ELSE s
    IN  CASE Len(s0.cache) = 1 -> updateZoom(updateDrag(s0, hs), hs)
          [] Len(s0.cache) = 2 -> updateZoom(s0, hs)
          [] OTHER -> s0

\* The body of handlePointerMove on the fields s and the handler table hs.
pointerMove(s, hs, event) ==
    LET i == IndexOf(s.cache, event.pointerId)
        s0 == IF i # 0 THEN [s EXCEPT !.cache = Overwrite(s.cache, i, event)]
              ELSE s
    IN  CASE Len(s0.cache) = 1 -> updateDrag(s0, hs)
          [] Len(s0.cache) = 2 -> updateZoom(s0, hs)
          [] OTHER -> s0

\* handlePointerMove(event)
handlePointerMove(event) ==
    Commit(pointerMove(Fields, handlers, event), Notification("move", event.pointerId))

\* handlePointerUp starting the drag before the removal instead of after it.
handlePointerUpNoDefer(id) ==
    LET s0 == Fields
        s1 == CASE Len(s0.cache) = 1 -> stopDrag(s0, handlers)
                [] Len(s0.cache) = 2 -> startDrag(stopZoom(s0, handlers), handlers)
                [] Len(s0.cache) = 3 -> startZoom(s0, handlers)
                [] OTHER -> s0
        i  == IndexOf(s1.cache, id)
        s2 == IF s1.thrown \/ i = 0 THEN s1
              ELSE [s1 EXCEPT !.cache = Splice(s1.cache, i)]
    IN  Commit(s2, Notification("up", id))

\* handlePointerUp starting the zoom of size 3 after the removal.
handlePointerUpZoomAfter(id) ==
    LET s0 == Fields
        deferStartDrag == Len(s0.cache) = 2
        deferStartZoom == Len(s0.cache) = 3
        s1 == CASE Len(s0.cache) = 1 -> stopDrag(s0, handlers)
                [] Len(s0.cache) = 2 -> stopZoom(s0, handlers)
                [] OTHER -> s0
        i  == IndexOf(s1.cache, id)
        s2 == IF s1.thrown \/ i = 0 THEN s1
              ELSE [s1 EXCEPT !.cache = Splice(s1.cache, i)]
        s3 == IF deferStartDrag THEN startDrag(s2, handlers)
              ELSE IF deferStartZoom THEN startZoom(s2, handlers)
              ELSE s2
    IN  Commit(s3, Notification("up", id))

\* handlePointerUp deferring a drag start at size 1 as well as at size 2.
handlePointerUpDeferAtOne(id) ==
    LET s0 == Fields
        deferStartDrag == Len(s0.cache) \in {1, 2}
        s1 == CASE Len(s0.cache) = 1 -> stopDrag(s0, handlers)
                [] Len(s0.cache) = 2 -> stopZoom(s0, handlers)
                [] Len(s0.cache) = 3 -> startZoom(s0, handlers)
                [] OTHER -> s0
        i  == IndexOf(s1.cache, id)
        s2 == IF s1.thrown \/ i = 0 THEN s1
              ELSE [s1 EXCEPT !.cache = Splice(s1.cache, i)]
        s3 == IF deferStartDrag THEN startDrag(s2, handlers) ELSE s2
    IN  Commit(s3, Notification("up", id))

\* handlePointerUp removing the contact although the switch raised.
pointerUpCaught(s0, hs, id) ==
    LET deferStartDrag == Len(s0.cache) = 2
        s1 == CASE Len(s0.cache) = 1 -> stopDrag(s0, hs)
                [] Len(s0.cache) = 2 -> stopZoom(s0, hs)
                [] Len(s0.cache) = 3 -> startZoom(s0, hs)
                [] OTHER -> s0
        i  == IndexOf(s1.cache, id)
        s2 == IF i = 0 THEN s1
              ELSE [s1 EXCEPT !.cache = Splice(s1.cache, i)]
    IN  IF deferStartDrag THEN startDrag(s2, hs) ELSE s2

\* The body of handlePointerUp on the fields s0 and the handler table hs.
pointerUp(s0, hs, id) ==
    LET deferStartDrag == Len(s0.cache) = 2
        s1 == CASE Len(s0.cache) = 1 -> stopDrag(s0, hs)
                [] Len(s0.cache) = 2 -> stopZoom(s0, hs)
                [] Len(s0.cache) = 3 -> startZoom(s0, hs)
                [] OTHER -> s0
        i  == IndexOf(s1.cache, id)
        s2 == IF s1.thrown \/ i = 0 THEN s1
              ELSE [s1 EXCEPT !.cache = Splice(s1.cache, i)]
    IN  IF deferStartDrag THEN startDrag(s2, hs) ELSE s2

\* handlePointerUp(event); the code reads only event.pointerId.
handlePointerUp(id) ==
    Commit(pointerUp(Fields, handlers, id), Notification("up", id))

----------------------------------------------------------------------------
\* The history of gesture starts and stops, read off the operations a
\* notification ran.

RECURSIVE ActiveAfter(_, _, _, _)
ActiveAfter(active, start, stop, called) ==
    IF called = <<>> THEN active
    ELSE ActiveAfter(IF Head(called) = start THEN TRUE
                     ELSE IF Head(called) = stop THEN FALSE
                     ELSE active,
                     start, stop, Tail(called))

RECURSIVE Alternates(_, _, _, _)
Alternates(active, start, stop, called) ==
    IF called = <<>> THEN TRUE
    ELSE /\ Head(called) = start => ~active
         /\ Head(called) = stop => active
         /\ Alternates(ActiveAfter(active, start, stop, <<Head(called)>>),
                       start, stop, Tail(called))

Tracked ==
    /\ dragActive' = ActiveAfter(dragActive, "startDrag", "stopDrag", ops')
    /\ zoomActive' = ActiveAfter(zoomActive, "startZoom", "stopZoom", ops')
    /\ orderly' = (/\ orderly
                   /\ Alternates(dragActive, "startDrag", "stopDrag", ops')
                   /\ Alternates(zoomActive, "startZoom", "stopZoom", ops'))

Untracked == UNCHANGED track

----------------------------------------------------------------------------
\* Specifications.

Register == \E k \in Kinds, h \in Handlers : on(k, h) /\ Untracked
Down == \E e \in PointerEvents : handlePointerDown(e) /\ Untracked
Move == \E e \in PointerEvents : handlePointerMove(e) /\ Untracked
Up == \E id \in Ids : handlePointerUp(id) /\ Untracked

\* Any caller: registrations and notifications in any order.
Next == Register \/ Down \/ Move \/ Up

Spec == Init /\ [][Next]_vars

\* The decoder once a caller has registered a handler for each of the six kinds.
InitRegistered ==
    /\ cache = <<>>
    /\ x = 0
    /\ y = 0
    /\ delta = 0
    /\ handlers = [k \in Kinds |-> "h1"]
    /\ out = <<>>
    /\ ops = <<>>
    /\ last = NoNotification
    /\ thrown = FALSE
    /\ dragActive = FALSE
    /\ zoomActive = FALSE
    /\ orderly = TRUE

\* Any sequence of notifications, well-formed or not.
NextNotify == Down \/ Move \/ Up

SpecRegistered == InitRegistered /\ [][NextNotify]_vars

\* Well-formed input: an added id is not in the cache, an updated or removed id is.
DownFresh == \E e \in PointerEvents :
    IndexOf(cache, e.pointerId) = 0 /\ handlePointerDown(e) /\ Tracked
MoveKnown == \E e \in PointerEvents :
    IndexOf(cache, e.pointerId) # 0 /\ handlePointerMove(e) /\ Tracked
UpKnown == \E id \in Ids :
    IndexOf(cache, id) # 0 /\ handlePointerUp(id) /\ Tracked

NextWellFormed == DownFresh \/ MoveKnown \/ UpKnown

SpecWellFormed == InitRegistered /\ [][NextWellFormed]_vars

\* A decoder no handler is ever registered on, under any sequence of
\* notifications.
SpecNoHandlers == Init /\ [][NextNotify]_vars

\* A caller whose six handlers are registered, at most MaxRaising of them
\* raising an error when called, under well-formed input: the caller knows a
\* contact as long as the cache holds it.
InitRaising ==
    /\ cache = <<>>
    /\ x = 0
    /\ y = 0
    /\ delta = 0
    /\ handlers \in {t \in [Kinds -> {"h1", Raiser}] :
                        Cardinality({k \in Kinds : t[k] = Raiser}) <= MaxRaising}
    /\ out = <<>>
    /\ ops = <<>>
    /\ last = NoNotification
    /\ thrown = FALSE
    /\ dragActive = FALSE
    /\ zoomActive = FALSE
    /\ orderly = TRUE

SpecRaising == InitRaising /\ [][NextWellFormed]_vars

\* A caller that registers handlers, for at most MaxRegistered kinds at a
\* time, and replaces them, between well-formed notifications.
Registered == {k \in Kinds : handlers[k] # None}

RegisterSome == \E k \in Kinds, h \in Handlers :
    Cardinality(Registered \cup {k}) <= MaxRegistered /\ on(k, h) /\ Untracked

NextRegistration == RegisterSome \/ DownFresh \/ MoveKnown \/ UpKnown

SpecRegistration == Init /\ [][NextRegistration]_vars

----------------------------------------------------------------------------
\* Vocabulary of the claims.

\* A cache entry without its history field.
Contact(e) == [pointerId |-> e.pointerId, clientX |-> e.clientX, clientY |-> e.clientY]

Anchors == <<x, y, delta>>

\* The kinds of the events the latest notification emitted, in order.
OutKinds == [i \in 1..Len(out) |-> out[i].kind]

\* What the claims expect of a payload, written out from the positions.
Displacement(p, ax, ay) == [x |-> p.clientX - ax, y |-> p.clientY - ay]

SqDist(p, q) ==
    (p.clientX - q.clientX) * (p.clientX - q.clientX)
        + (p.clientY - q.clientY) * (p.clientY - q.clientY)

\* The centre of e is the midpoint of p and q (in half units).
CentredOn(e, p, q) ==
    /\ e.x = p.clientX + q.clientX
    /\ e.y = p.clientY + q.clientY

\* The scale of e is the distance of p and q over the anchor (on squares).
ScaledBy(e, p, q, anchor) ==
    /\ e.scale.num * anchor = e.scale.den * SqDist(p, q)
    /\ e.scale.den = 0 <=> anchor = 0
    /\ e.scale.num = 0 <=> SqDist(p, q) = 0

----------------------------------------------------------------------------
\* C1: a contact-removed notification whose id matches no contact in the cache
\* is a no-op: the cache and both anchors are unchanged and no event is
\* emitted, whatever the cache size.
C1_UnmatchedRemoveIsNoOp ==
    [][(last'.type = "up" /\ ~last'.matched)
        => (UNCHANGED <<cache, x, y, delta>> /\ out' = <<>>)]_vars

\* C2: a contact-updated notification whose id matches no contact in the cache
\* is a no-op: the cache and both anchors are unchanged and no dragupdate or
\* zoomupdate is emitted.
C2_UnmatchedUpdateIsNoOp ==
    [][(last'.type = "move" /\ ~last'.matched)
        => (UNCHANGED <<cache, x, y, delta>> /\ out' = <<>>)]_vars

\* C3: for all sequences of notifications, a contact-added of a cached id
\* included, the cache never holds two contacts with the same id.
C3_NoDuplicateIds ==
    \A i, j \in 1..Len(cache) : cache[i].pointerId = cache[j].pointerId => i = j

\* C4: the cache is ordered by arrival.  A contact-added appends at the end, a
\* contact-updated overwrites at most the one matching entry at its index, a
\* contact-removed deletes one matching entry and keeps the order of the
\* others; so the entries are always in order of arrival, cache[0] and
\* cache[1] being the two earliest-arrived contacts still in the cache.
ArrivalOrdered(c) == \A i, j \in 1..Len(c) : i < j => c[i].arrival < c[j].arrival

C4_Step ==
    /\ ArrivalOrdered(cache')
    /\ last'.type = "down" =>
          /\ Len(cache') = Len(cache) + 1
          /\ \A i \in 1..Len(cache) : Contact(cache'[i]) = Contact(cache[i])
          /\ cache'[Len(cache')].arrival = Len(cache')
    /\ last'.type = "move" =>
          /\ Len(cache') = Len(cache)
          /\ \A i \in 1..Len(cache) : cache'[i].pointerId = cache[i].pointerId
          /\ Cardinality({i \in 1..Len(cache) : cache'[i] # cache[i]})
                <= (IF last'.matched THEN 1 ELSE 0)
    /\ (last'.type = "up" /\ ~last'.matched) => cache' = cache
    /\ (last'.type = "up" /\ last'.matched) =>
          /\ Len(cache') = Len(cache) - 1
          /\ \E i \in 1..Len(cache) :
                /\ \A j \in 1..(i - 1) : Contact(cache'[j]) = Contact(cache[j])
                /\ \A j \in i..Len(cache') : Contact(cache'[j]) = Contact(cache[j + 1])

C4_ArrivalOrder == [][C4_Step]_vars

\* A contact other than the latest arrival has been removed and the two
\* survivors are in order of arrival, which is not the order of their ids.
C4_Witness ==
    /\ last.type = "up" /\ last.matched
    /\ Len(cache) = 2
    /\ ops = <<"startZoom">>
    /\ cache[1].pointerId > cache[2].pointerId
    /\ ArrivalOrdered(cache)

----------------------------------------------------------------------------
\* C5: under well-formed input, after every notification a drag is active
\* exactly when the cache holds 1 contact and a zoom exactly when it holds 2;
\* so the two are never active together, none is active at size 0 or at 3 and
\* more, and the starts and stops of each gesture alternate.
C5_GestureBySize ==
    /\ dragActive <=> Len(cache) = 1
    /\ zoomActive <=> Len(cache) = 2
    /\ ~(dragActive /\ zoomActive)
    /\ orderly

\* A zoom restarted by a removal from three contacts: zoom active, drag idle.
C5_Witness ==
    /\ last.type = "up"
    /\ Len(cache) = 2
    /\ ops = <<"startZoom">>
    /\ zoomActive /\ ~dragActive

\* C6: a contact-added acts by the cache size after the append.  Size 1 emits
\* exactly dragstart; size 2 emits dragstop computed from the first contact and
\* then zoomstart computed from the first and the new contact; size 3 emits
\* exactly zoomstop computed from the two earlier contacts; size 4 or more
\* emits nothing and changes no anchor.
C6_Step ==
    last'.type = "down" =>
        /\ Len(cache') = 1 =>
              /\ OutKinds' = <<"dragstart">>
              /\ out'[1].event = [x |-> 0, y |-> 0]
        /\ Len(cache') = 2 =>
              /\ OutKinds' = <<"dragstop", "zoomstart">>
              /\ out'[1].event = Displacement(cache[1], x, y)
              /\ CentredOn(out'[2].event, cache[1], cache'[2])
              /\ out'[2].event.scale = [num |-> 1, den |-> 1]
              /\ delta' = SqDist(cache[1], cache'[2])
        /\ Len(cache') = 3 =>
              /\ OutKinds' = <<"zoomstop">>
              /\ CentredOn(out'[1].event, cache[1], cache[2])
              /\ ScaledBy(out'[1].event, cache[1], cache[2], delta)
        /\ Len(cache') >= 4 =>
              /\ out' = <<>>
              /\ UNCHANGED <<x, y, delta>>

C6_AddBySize == [][C6_Step]_vars

\* A second contact has arrived after the first one had moved: dragstop with a
\* displacement other than zero, then zoomstart.
C6_Witness ==
    /\ last.type = "down"
    /\ Len(cache) = 2
    /\ OutKinds = <<"dragstop", "zoomstart">>
    /\ out[1].event # [x |-> 0, y |-> 0]

\* C7: when one of exactly two cached contacts is removed, zoomstop is emitted
\* first, computed from both contacts' positions before the removal, then the
\* contact is removed, then dragstart is emitted with displacement {0,0} and
\* the Drag Anchor is the position of the one remaining contact; a later
\* dragupdate leaves that anchor alone and reports the contact's position
\* minus it.
C7_Step ==
    /\ (last'.type = "up" /\ last'.matched /\ Len(cache) = 2) =>
          /\ OutKinds' = <<"zoomstop", "dragstart">>
          /\ CentredOn(out'[1].event, cache[1], cache[2])
          /\ ScaledBy(out'[1].event, cache[1], cache[2], delta)
          /\ out'[2].event = [x |-> 0, y |-> 0]
          /\ Len(cache') = 1
          /\ Contact(cache'[1]) \in {Contact(cache[1]), Contact(cache[2])}
          /\ x' = cache'[1].clientX
          /\ y' = cache'[1].clientY
    /\ (last'.type = "move" /\ Len(cache) = 1) =>
          /\ UNCHANGED <<x, y>>
          /\ OutKinds' = <<"dragupdate">>
          /\ out'[1].event = Displacement(cache'[1], x, y)

C7_ReleaseToSingle == [][C7_Step]_vars

\* The index-0 contact of a zoom has been removed while the index-1 contact
\* was elsewhere, and the drag is anchored on the contact that remains.
C7_Witness ==
    /\ last.type = "up" /\ last.matched
    /\ OutKinds = <<"zoomstop", "dragstart">>
    /\ Len(cache) = 1
    /\ out[1].event.x # 2 * cache[1].clientX
    /\ x = cache[1].clientX /\ y = cache[1].clientY

\* C8: from 3 contacts, removing any one of them re-fires zoomstart on the
\* pair that is left: the Zoom Anchor is the distance of the two contacts that
\* remain after the removal and the centre of zoomstart is their midpoint.
C8_Step ==
    (last'.type = "up" /\ last'.matched /\ Len(cache) = 3) =>
        /\ OutKinds' = <<"zoomstart">>
        /\ Len(cache') = 2
        /\ delta' = SqDist(cache'[1], cache'[2])
        /\ CentredOn(out'[1].event, cache'[1], cache'[2])

C8_ReleaseToPair == [][C8_Step]_vars

\* C9: with 3 or more contacts in the cache the output is frozen: a
\* contact-updated emits nothing and changes no anchor, a contact-added that
\* brings the size to 4 or more emits nothing, and a contact-removed at size 4
\* or more emits nothing.
C9_Step ==
    /\ (last'.type = "move" /\ Len(cache) >= 3) =>
          out' = <<>> /\ UNCHANGED <<x, y, delta>>
    /\ (last'.type = "down" /\ Len(cache') >= 4) =>
          out' = <<>> /\ UNCHANGED <<x, y, delta>>
    /\ (last'.type = "up" /\ Len(cache) >= 4) =>
          out' = <<>> /\ UNCHANGED <<x, y, delta>>

C9_Frozen == [][C9_Step]_vars

\* A cached contact has moved while three contacts were down, and nothing
\* was emitted.
C9_Witness ==
    /\ last.type = "move" /\ last.matched
    /\ Len(cache) = 3
    /\ out = <<>>
    /\ ops = <<>>

\* C10: dragstart always carries {0,0} and leaves the Drag Anchor at the
\* contact's position; nothing but a drag start moves the anchor; every
\* dragupdate carries the contact's current position minus the anchor; and
\* dragstop carries the same displacement from the contact's last known
\* position, when the contact is removed and when a second contact is added.
Emitted(o, kind) == {i \in 1..Len(o) : o[i].kind = kind}

Ran(called, name) == \E i \in 1..Len(called) : called[i] = name

C10_Step ==
    /\ \A i \in Emitted(out', "dragstart") : out'[i].event = [x |-> 0, y |-> 0]
    /\ Ran(ops', "startDrag") => (x' = cache'[1].clientX /\ y' = cache'[1].clientY)
    /\ ~Ran(ops', "startDrag") => UNCHANGED <<x, y>>
    /\ \A i \in Emitted(out', "dragupdate") :
          /\ last'.type = "move"
          /\ out'[i].event = Displacement(cache'[1], x, y)
    /\ \A i \in Emitted(out', "dragstop") :
          /\ out'[i].event = Displacement(cache[1], x, y)
          /\ \/ last'.type = "up" /\ Len(cache) = 1
             \/ last'.type = "down" /\ Len(cache') = 2
    /\ (last'.type = "move" /\ Len(cache) = 1) => Emitted(out', "dragupdate") = {1}
    /\ (last'.type = "up" /\ Len(cache) = 1) => Emitted(out', "dragstop") = {1}
    /\ (last'.type = "down" /\ Len(cache') = 2) => Emitted(out', "dragstop") = {1}

C10_DragPayloads == [][C10_Step]_vars

\* A drag has ended by the removal of its contact, away from where it
\* started in both coordinates.
C10_Witness ==
    /\ last.type = "up" /\ last.matched
    /\ Len(cache) = 0
    /\ OutKinds = <<"dragstop">>
    /\ out[1].event.x # 0
    /\ out[1].event.y # 0
    /\ out[1].event.x # out[1].event.y

----------------------------------------------------------------------------
\* C11: for a zoom under well-formed input, zoomstart carries scale 1 and the
\* midpoint of cache[0] and cache[1]; every zoomupdate and zoomstop carries
\* the midpoint of the two contacts' current positions and a scale equal to
\* their current distance over their distance at the most recent zoom start.
\* Stated step by step: zoomstart is centred on the pair it reads; a zoom
\* start leaves the Zoom Anchor at the distance of the pair that the cache
\* holds when the notification is done (the two contacts the following
\* updates measure); and every update and stop reports the pair's midpoint
\* and its distance over the anchor.
C11_Step ==
    /\ \A i \in Emitted(out', "zoomstart") :
          out'[i].event.scale = [num |-> 1, den |-> 1]
    /\ \A i \in Emitted(out', "zoomstart") :
          IF last'.type = "up"
          THEN CentredOn(out'[i].event, cache[1], cache[2])
          ELSE CentredOn(out'[i].event, cache'[1], cache'[2])
    /\ (Ran(ops', "startZoom") /\ Len(cache') >= 2) =>
          delta' = SqDist(cache'[1], cache'[2])
    /\ \A i \in Emitted(out', "zoomupdate") :
          /\ CentredOn(out'[i].event, cache'[1], cache'[2])
          /\ ScaledBy(out'[i].event, cache'[1], cache'[2], delta)
    /\ \A i \in Emitted(out', "zoomstop") :
          /\ CentredOn(out'[i].event, cache[1], cache[2])
          /\ ScaledBy(out'[i].event, cache[1], cache[2], delta)

C11_ZoomPayloads == [][C11_Step]_vars

----------------------------------------------------------------------------
\* C12: registering a handler for a kind replaces the handler of that kind
\* and touches nothing else: the handlers of the five other kinds, the cache
\* and both anchors are unchanged, and every later event of the kind invokes
\* the handler registered last, exactly once, and no other.
KindOf(name) ==
    CASE name = "startDrag" -> "dragstart"
      [] name = "updateDrag" -> "dragupdate"
      [] name = "stopDrag" -> "dragstop"
      [] name = "startZoom" -> "zoomstart"
      [] name = "updateZoom" -> "zoomupdate"
      [] name = "stopZoom" -> "zoomstop"

\* The kinds of the operations that ran, those without a handler left out.
RECURSIVE Deliverable(_, _)
Deliverable(called, hs) ==
    IF called = <<>> THEN <<>>
    ELSE IF hs[KindOf(Head(called))] # None
         THEN <<KindOf(Head(called))>> \o Deliverable(Tail(called), hs)
         ELSE Deliverable(Tail(called), hs)

C12_Step ==
    /\ \A k \in Kinds, h \in Handlers :
          on(k, h) =>
              /\ handlers'[k] = h
              /\ \A j \in Kinds \ {k} : handlers'[j] = handlers[j]
              /\ UNCHANGED <<cache, x, y, delta>>
    /\ handlers' = handlers =>
          /\ OutKinds' = Deliverable(ops', handlers)
          /\ \A i \in 1..Len(out') : out'[i].handler = handlers[out'[i].kind]

C12_RegistrationReplaces == [][C12_Step]_vars

\* An event of some kind went to h1, and the kind's handler has since been
\* replaced by h2.
C12_Witness ==
    \E i \in 1..Len(out) :
        /\ out[i].handler = "h1"
        /\ handlers[out[i].kind] = "h2"

----------------------------------------------------------------------------
\* C13: with no handler registered, any sequence of notifications, well-formed
\* or not, completes without raising and emits no event; a drag start runs
\* only on a cache of at least one contact and a zoom start only on a cache of
\* at least two.

\* The cache length when the notification's switch ran: a removal takes its
\* contact out after the switch.
LenAtSwitch ==
    Len(cache) + (IF last.type = "up" /\ last.matched THEN 1 ELSE 0)

C13_NoHandlersNoFailure ==
    /\ ~thrown
    /\ out = <<>>
    /\ Ran(ops, "startDrag") => Len(cache) >= 1
    /\ Ran(ops, "startZoom") => LenAtSwitch >= 2

\* A removal at size 2 has run the deferred drag start on the one contact left.
C13_Witness ==
    /\ Registered = {}
    /\ last = [type |-> "up", matched |-> TRUE]
    /\ ops = <<"stopZoom", "startDrag">>
    /\ Len(cache) = 1
    /\ x = cache[1].clientX /\ y = cache[1].clientY

----------------------------------------------------------------------------
\* C14: a removal at cache size 3 runs the zoom start before it removes the
\* contact: the Zoom Anchor it records, and the zoomstart it emits, are those
\* of the first two contacts as they were before the removal, whichever
\* contact departs; when the departing contact is one of those two, the two
\* contacts left in the cache are another pair.
PairIds(c) == {c[1].pointerId, c[2].pointerId}

C14_Step ==
    (last'.type = "up" /\ Len(cache) = 3) =>
        /\ ops' = <<"startZoom">>
        /\ delta' = SqDist(cache[1], cache[2])
        /\ OutKinds' = <<"zoomstart">>
        /\ CentredOn(out'[1].event, cache[1], cache[2])
        /\ \A i \in 1..3 :
              (Len(cache') = 2 /\ Contact(cache[i]) \notin {Contact(cache'[j]) : j \in 1..2}) =>
                  (i \in {1, 2} <=> PairIds(cache') # PairIds(cache))

C14_ZoomStartBeforeRemoval == [][C14_Step]_vars

\* After a removal at size 3 the anchor is not the distance of the pair left.
C14_Witness ==
    /\ last = [type |-> "up", matched |-> TRUE]
    /\ ops = <<"startZoom">>
    /\ Len(cache) = 2
    /\ delta # SqDist(cache[1], cache[2])

----------------------------------------------------------------------------
\* C15: a zero Zoom Anchor is not guarded.  A second contact added at the
\* position of the first still stops the drag and emits zoomstart with scale 1,
\* and the anchor recorded is 0; while the anchor is 0 an update at size 2
\* still emits zoomupdate and a removal at size 2 still emits zoomstop and
\* starts the drag of the contact left, each zoom event with a scale whose
\* divisor is zero (non-finite).
SamePosition(p, q) == p.clientX = q.clientX /\ p.clientY = q.clientY

C15_Step ==
    /\ (last'.type = "down" /\ Len(cache') = 2 /\ SamePosition(cache'[1], cache'[2])) =>
          /\ OutKinds' = <<"dragstop", "zoomstart">>
          /\ out'[2].event.scale = [num |-> 1, den |-> 1]
          /\ delta' = 0
    /\ (last'.type = "move" /\ Len(cache) = 2 /\ delta = 0) =>
          /\ OutKinds' = <<"zoomupdate">>
          /\ out'[1].event.scale.den = 0
          /\ out'[1].event.scale.num = 0 <=> SamePosition(cache'[1], cache'[2])
          /\ CentredOn(out'[1].event, cache'[1], cache'[2])
    /\ (last'.type = "up" /\ Len(cache) = 2 /\ delta = 0) =>
          /\ OutKinds' = <<"zoomstop", "dragstart">>
          /\ out'[1].event.scale.den = 0
          /\ out'[1].event.scale.num = 0 <=> SamePosition(cache[1], cache[2])
          /\ Len(cache') = 1

C15_ZeroAnchorUnguarded == [][C15_Step]_vars

\* Two contacts that started at one position have moved apart: the zoomupdate
\* carries a positive distance over a zero anchor.
C15_Witness ==
    /\ delta = 0
    /\ Len(cache) = 2
    /\ OutKinds = <<"zoomupdate">>
    /\ out[1].event.scale = [num |-> 1, den |-> 0]

----------------------------------------------------------------------------
\* C16: anchors change only at gesture starts.  The Drag Anchor changes only
\* in a notification that ran a drag start, the Zoom Anchor only in one that
\* ran a zoom start; a contact-updated notification changes neither anchor,
\* nor the cache length, nor the order of the contacts; and under well-formed
\* input the Drag Anchor is not written while a drag is active, nor the Zoom
\* Anchor while a zoom is active.
C16_Step ==
    /\ ~Ran(ops', "startDrag") => UNCHANGED <<x, y>>
    /\ ~Ran(ops', "startZoom") => delta' = delta
    /\ last'.type = "move" =>
          /\ UNCHANGED <<x, y, delta>>
          /\ Len(cache') = Len(cache)
          /\ \A i \in 1..Len(cache) :
                /\ cache'[i].pointerId = cache[i].pointerId
                /\ cache'[i].arrival = cache[i].arrival
    /\ dragActive => UNCHANGED <<x, y>>
    /\ zoomActive => delta' = delta

C16_AnchorsOnlyAtStarts == [][C16_Step]_vars

\* A zoom is active and its two contacts have moved: the anchor is still the
\* distance they had at the start, not the one they have now, and the Drag
\* Anchor is no position of either.
C16_Witness ==
    /\ zoomActive
    /\ last = [type |-> "move", matched |-> TRUE]
    /\ Len(cache) = 2
    /\ delta # SqDist(cache[1], cache[2])
    /\ <<x, y>> # <<cache[1].clientX, cache[1].clientY>>

----------------------------------------------------------------------------
\* C17: handler registration does not influence the decoder's state.  From
\* every reachable state, whatever notification comes next, a decoder with any
\* other table of non-raising handlers ends with the same cache, Drag Anchor
\* and Zoom Anchor as this one, and a handler of one kind receives the same
\* payloads under both tables; two decoders fed the same sequence therefore
\* stay in the same state, notification after notification.
Tables == [Kinds -> {None, "h1"}]

Core(s) == <<s.cache, s.x, s.y, s.delta, s.thrown>>

RECURSIVE PayloadsOf(_, _)
PayloadsOf(o, kind) ==
    IF o = <<>> THEN <<>>
    ELSE IF Head(o).kind = kind
         THEN <<Head(o).event>> \o PayloadsOf(Tail(o), kind)
         ELSE PayloadsOf(Tail(o), kind)

\* Two outcomes of one notification under the tables hs and handlers.
SameOutcome(a, b, hs) ==
    /\ Core(a) = Core(b)
    /\ \A k \in Kinds :
          (hs[k] # None /\ handlers[k] # None) =>
              PayloadsOf(a.out, k) = PayloadsOf(b.out, k)

C17_HandlersDoNotInfluenceState ==
    \A hs \in Tables :
        /\ \A e \in PointerEvents :
              /\ SameOutcome(pointerDown(Fields, hs, e),
                             pointerDown(Fields, handlers, e), hs)
              /\ SameOutcome(pointerMove(Fields, hs, e),
                             pointerMove(Fields, handlers, e), hs)
        /\ \A id \in Ids :
              SameOutcome(pointerUp(Fields, hs, id), pointerUp(Fields, handlers, id), hs)

\* A removal at size 2 re-anchors the drag in a decoder without handlers as
\* it does in this one, which emits zoomstop and dragstart for it.
C17_Witness ==
    /\ Len(cache) = 2
    /\ \E id \in Ids :
          LET a == pointerUp(Fields, [k \in Kinds |-> None], id)
              b == pointerUp(Fields, handlers, id)
          IN  /\ a.out = <<>>
              /\ Len(b.out) = 2
              /\ <<a.x, a.y>> # <<x, y>>
              /\ Core(a) = Core(b)

----------------------------------------------------------------------------
\* C18: with all six handlers registered and under any sequence of
\* notifications, unmatched ids and repeated adds included, every gesture
\* operation reads only cache entries that exist: no notification raises, the
\* drag operations run on a cache of at least 1 contact and the zoom
\* operations on a cache of at least 2.
DragOps == {"startDrag", "updateDrag", "stopDrag"}
ZoomOps == {"startZoom", "updateZoom", "stopZoom"}

\* The cache length when the i-th operation of the latest notification ran:
\* the drag start of a removal is deferred until the contact is out.
LenAtCall(i) ==
    IF last.type = "up" /\ ops[i] = "startDrag" THEN Len(cache) ELSE LenAtSwitch

C18_ReadsExistingEntries ==
    /\ ~thrown
    /\ \A i \in 1..Len(ops) :
          /\ ops[i] \in DragOps => LenAtCall(i) >= 1
          /\ ops[i] \in ZoomOps => LenAtCall(i) >= 2
    /\ Len(out) = Len(ops)

\* A removal of an unknown id at size 2 stops the zoom and starts a drag, and
\* a repeated id sits in the cache.
C18_Witness ==
    /\ last = [type |-> "up", matched |-> FALSE]
    /\ ops = <<"stopZoom", "startDrag">>
    /\ Len(cache) = 2
    /\ cache[1].pointerId = cache[2].pointerId
    /\ \A k \in Kinds : handlers[k] # None

----------------------------------------------------------------------------
\* C19: when the handler that the immediate action of a removal calls
\* (dragstop at size 1, zoomstop at size 2, zoomstart at size 3) raises, the
\* error reaches the caller and the notification ends before the removal: the
\* cache is as it was, that contact included, and no operation runs after the
\* one that raised, so at size 2 the deferred drag start does not run.
ImmediateKind(n) ==
    CASE n = 1 -> "dragstop"
      [] n = 2 -> "zoomstop"
      [] n = 3 -> "zoomstart"

C19_Step ==
    (/\ last'.type = "up"
     /\ Len(cache) \in 1..3
     /\ handlers[ImmediateKind(Len(cache))] = Raiser) =>
        /\ thrown'
        /\ cache' = cache
        /\ OutKinds' = <<ImmediateKind(Len(cache))>>
        /\ Len(ops') = 1
        /\ ~Ran(ops', "startDrag")
        /\ UNCHANGED <<x, y>>

C19_RaisingHandlerAborts == [][C19_Step]_vars

\* The zoomstop handler raised on a removal at size 2: both contacts are
\* still in the cache and no drag was started.
C19_Witness ==
    /\ thrown
    /\ last = [type |-> "up", matched |-> TRUE]
    /\ handlers["zoomstop"] = Raiser
    /\ ops = <<"stopZoom">>
    /\ Len(cache) = 2

====
